---- MODULE Spec2Model ----
(***************************************************************************)
(* A model of the translation relay server (src/server.js): the session    *)
(* table and its status machine, the media-stream table, the per-leg audio *)
(* accumulator, the mu-law codec and the translation pipeline.             *)
(*                                                                         *)
(* Node runs every handler to its first await without interruption, so an  *)
(* action is one such run: a handler up to its first pending external      *)
(* call, or the continuation that runs when that call returns.             *)
(***************************************************************************)
EXTENDS Integers, Sequences, FiniteSets, TLC

\* ------------------------------------------------------------------ bounds

\* Media messages accepted over all streams of one behaviour.
MaxMedia == 2

\* Media-stream connections opened in one behaviour.
MaxConns == 3

\* Media messages fed to the one stream of the framing specification.
MaxFeeds == 3

\* Media messages accepted in one behaviour of the isolation specification.
MaxFrames == 1

\* Requests that reach the session table in one behaviour: accepted
\* create-session requests and call-status and conference-status events.
MaxEvents == 6

\* Sessions created in one behaviour of the lifecycle specification.
MaxSessions == 1

\* Status events and voice webhooks in one behaviour of the calls
\* specification.
MaxCalls == 4

\* ------------------------------------------------------- program constants

\* AUDIO_CONFIG.chunkSize: bytes of one frame (200 ms at 8 kHz).
chunkSize == 1600

\* The mu-law bias of mulawToLinear and linearToMulaw (0x84).
bias == 132

\* WebSocket.OPEN, the readyState sendAudioToParticipant compares with.
WS_OPEN == 1

\* The readyState of a socket that is closing, and of one that has closed.
WS_CLOSING == 2

WS_CLOSED == 3

\* ------------------------------------------------------------------- codec

Pow2(n) == 2 ^ n

\* x << n and x >> n on the non-negative values the codec shifts.
Shl(x, n) == x * Pow2(n)

Shr(x, n) == x \div Pow2(n)

Abs(x) == IF x < 0 THEN -x ELSE x

\* A decoder that complements the byte before it reads the fields, as the
\* G.711 decoder does.
mulawToLinearComplemented(mulaw) ==
    LET u == 255 - mulaw
        exponent == (u \div 16) % 8
        base == Shl(u % 16, exponent + 3)
        sample == IF exponent # 0 THEN base + Shl(bias, exponent) ELSE base
    IN  IF (u \div 128) % 2 # 0 THEN -sample ELSE sample

\* mulawToLinear(mulaw): sign = mulaw & 0x80, exponent = (mulaw >> 4) & 7,
\* mantissa = mulaw & 0x0F; the byte is not complemented before it is read.
mulawToLinear(mulaw) ==
    LET sign == (mulaw \div 128) % 2
        exponent == (mulaw \div 16) % 8
        mantissa == mulaw % 16
        base == Shl(mantissa, exponent + 3)
        sample == IF exponent # 0 THEN base + Shl(bias, exponent) ELSE base
    IN  IF sign # 0 THEN -sample ELSE sample

\* The loop of linearToMulaw: the first exp in 0..7 with
\* sample <= 0x1F << (exp + 3), and 7 when there is none.
FindExponent(sample) ==
    LET fits == {e \in 0..7 : sample <= Shl(31, e + 3)}
    IN  IF fits = {} THEN 7 ELSE CHOOSE e \in fits : \A f \in fits : e <= f

\* linearToMulaw(linear): the JavaScript number it returns, ~(sign|exp|mant),
\* which is negative.
linearToMulaw(linear) ==
    LET sign == IF linear < 0 THEN 128 ELSE 0
        sample == Abs(linear) + bias
        exponent == FindExponent(sample)
        mantissa == Shr(sample, exponent + 3) % 16
    IN  -(sign + Shl(exponent, 4) + mantissa) - 1

\* Storing a number in a Buffer element keeps its low eight bits.
ToUint8(v) == v % 256

\* writeInt16LE accepts exactly the signed 16-bit values.
IsInt16(v) == v >= -32768 /\ v <= 32767

\* convertMulawToWav: one 16-bit sample per byte.
convertMulawToWav(mulawBytes) ==
    [i \in 1..Len(mulawBytes) |-> mulawToLinear(mulawBytes[i])]

\* convertWavToMulaw: one byte per 16-bit sample.
convertWavToMulaw(wavData) ==
    [i \in 1..Len(wavData) |-> ToUint8(linearToMulaw(wavData[i]))]

\* -------------------------------------------------------------------- text

\* A text is a sequence of characters; NULL is JavaScript's null.
NULL == <<"null">>

IsSpace(ch) == ch = " "

RECURSIVE TrimStart(_)
TrimStart(s) ==
    IF s = <<>> THEN <<>>
    ELSE IF IsSpace(Head(s)) THEN TrimStart(Tail(s)) ELSE s

RECURSIVE TrimEnd(_)
TrimEnd(s) ==
    IF s = <<>> THEN <<>>
    ELSE IF IsSpace(s[Len(s)]) THEN TrimEnd(SubSeq(s, 1, Len(s) - 1)) ELSE s

\* String.prototype.trim
Trim(s) == TrimEnd(TrimStart(s))

\* A test for speech that only knows null.
NoSpeechNullOnly(transcription) == transcription = NULL

\* !transcription || transcription.trim().length === 0
NoSpeech(transcription) ==
    \/ transcription = NULL
    \/ transcription = <<>>
    \/ Len(Trim(transcription)) = 0

\* ----------------------------------------------------------- the universe

ParticipantTypes == {"web", "phone"}

\* Two of the keys of SUPPORTED_LANGUAGES.
Langs == {"en", "es"}

\* uuidv4 never repeats: the n-th session created gets the n-th id.
IdPool == <<"s1", "s2", "s3", "s4">>

\* A session id no createSession has issued.
UnknownId == "s0"

\* The session id of a request that carries none.
MissingId == ""

\* The sessions the relay and framing specifications start with.
RelaySessions == {"s1", "s2"}

\* ------------------------------------------------------------------ audio
\* The audio a leg sends is one byte stream; byte p of it (from 0) is
\* StreamByte(p), so that frames cut at different offsets differ.  A Buffer
\* of wire audio is held as the windows of that stream it is made of, in
\* order: <<[from |-> 0, len |-> 1600]>> is the stream's first 1600 bytes.
\* Bytes(a) are the bytes themselves.

StreamByte(p) == (p * 37 + 11) % 256

Window(from, len) == [from |-> from, len |-> len]

RECURSIVE AudioLen(_)
\* buffer.length
AudioLen(a) == IF a = <<>> THEN 0 ELSE a[1].len + AudioLen(Tail(a))

RECURSIVE Bytes(_)
Bytes(a) ==
    IF a = <<>> THEN <<>>
    ELSE [i \in 1..a[1].len |-> StreamByte(a[1].from + i - 1)] \o Bytes(Tail(a))

\* Buffer.concat([a, b]); two windows that meet are written as one.
BufferConcat(a, b) ==
    IF a = <<>> THEN b
    ELSE IF b = <<>> THEN a
    ELSE LET last == a[Len(a)]
             first == b[1]
         IN  IF last.from + last.len = first.from
             THEN SubSeq(a, 1, Len(a) - 1)
                  \o <<Window(last.from, last.len + first.len)>> \o Tail(b)
             ELSE a \o b

RECURSIVE BufferTake(_, _)
\* buffer.slice(0, n)
BufferTake(a, n) ==
    IF n <= 0 \/ a = <<>> THEN <<>>
    ELSE IF a[1].len <= n THEN <<a[1]>> \o BufferTake(Tail(a), n - a[1].len)
    ELSE <<Window(a[1].from, n)>>

RECURSIVE BufferDrop(_, _)
\* buffer.slice(n)
BufferDrop(a, n) ==
    IF n <= 0 \/ a = <<>> THEN a
    ELSE IF a[1].len <= n THEN BufferDrop(Tail(a), n - a[1].len)
    ELSE <<Window(a[1].from + n, a[1].len - n)>> \o Tail(a)

\* The byte values that occur in a (StreamByte has period 256).
ByteValues(a) ==
    UNION {{StreamByte(a[k].from + i) : i \in 0..((IF a[k].len < 256 THEN a[k].len ELSE 256) - 1)}
              : k \in 1..Len(a)}

\* The next len bytes of a leg that has sent `sofar` bytes.
Chunk(sofar, len) == IF len = 0 THEN <<>> ELSE <<Window(sofar, len)>>

\* Chunk lengths of the relay specification: whole frames.
RelayLens == {1600}

\* Chunk lengths of the framing specification: empty, short, around one
\* frame, and two frames and more in one message.
FramingLens == {0, 1, 799, 1599, 1600, 1601, 3200, 3201}

\* What the transcription service may return: a failure (null), an empty
\* text, silence, and speech with a leading blank.
Transcripts == {NULL, <<>>, <<" ">>, <<" ", "h", "i">>}

\* What the chat completion may return as message content.
Translations == {<<"H", "I", " ">>}

\* What the speech service may return, as 16-bit samples.
SynthAudios == {<<0, 1000, -32256>>}

\* ------------------------------------------------------------------ state

VARIABLES
    activeSessions,   \* the keys of the activeSessions Map
    session,          \* the session objects ever created, by session id
    pendingCreate,    \* create-session requests awaiting client.calls.create
    timers,           \* per session id, the cleanup timers not yet fired
    conns,            \* the media-stream sockets accepted, in arrival order
    activeStreams,    \* the activeStreams Map: stream key -> stream record
    tasks,            \* the translateAndForwardAudio invocations under way
    sent,             \* the messages written to sockets
    emitted,          \* per stream key, the frames cut so far, in order
    ended,            \* the invocation the last step ended, and how
    fedLen,           \* per stream key, the bytes received in media messages
    nMedia,           \* media messages processed
    nEvents,          \* sessions created and status events processed
    script,           \* per session, its progress along the reference scenario
    handled,          \* the HTTP request the last step handled, and its reply
    codec             \* the codec round trip under way

vars ==
    <<activeSessions, session, pendingCreate, timers, conns, activeStreams,
      tasks, sent, emitted, ended, fedLen, nMedia, nEvents, script, handled,
      codec>>

lifecycleVars == <<activeSessions, session, pendingCreate, timers, nEvents, script>>

streamVars == <<conns, activeStreams>>

pipelineVars == <<tasks, sent>>

feedVars == <<emitted, fedLen, nMedia>>

\* `${sessionId}-${participant}`: a uuid has a fixed length, so the string
\* determines both parts and the key is the pair.
StreamKey(sessionId, participant) == <<sessionId, participant>>

\* ----------------------------------------------------------------- records

\* A function with one more (or one replaced) entry: Map.prototype.set.
MapSet(m, k, v) == [x \in DOMAIN m \cup {k} |-> IF x = k THEN v ELSE m[x]]

\* Map.prototype.delete.
MapDelete(m, k) == [x \in DOMAIN m \ {k} |-> m[x]]

EmptyMap == <<>>

\* The object create-session stores.
NewSession(sessionId, phoneNumber, phoneLanguage, webLanguage) ==
    [sessionId |-> sessionId,
     phoneNumber |-> phoneNumber,
     languages |-> [phone |-> phoneLanguage, web |-> webLanguage],
     status |-> "created",
     participants |-> EmptyMap,
     audioBuffers |-> EmptyMap]

\* A frame is known by the leg it came from and its number on that leg.
Frame(sessionId, source, seq) == [sessionId |-> sessionId, source |-> source, seq |-> seq]

\* A call to a speech service and its arguments: transcribe(audio, from),
\* translate(text, from, to), synthesize(text, to).
ServiceCall(service, text, from, to) ==
    [service |-> service, text |-> text, from |-> from, to |-> to]

\* One invocation of translateAndForwardAudio that waits for `call`.
Task(frame, audioData, transcription, translateFailed, call) ==
    [frame |-> frame, audioData |-> audioData, transcription |-> transcription,
     translateFailed |-> translateFailed, call |-> call]

\* How an invocation ended: "skipped" (same language), "error" (decoding
\* threw), "silence", "synth_error", or what sendAudioToParticipant did with
\* the payload: "sent", "no_stream", "not_open".  `task` is the invocation
\* as it was, `speech` the audio the speech service returned.
Ended(task, outcome, speech, target, payload, ws) ==
    [task |-> task, outcome |-> outcome, speech |-> speech, target |-> target,
     payload |-> payload, ws |-> ws]

NoCall == ServiceCall("none", <<>>, "", "")

\* The last step ended no invocation.
NoEnd == Ended(Task(Frame("", "", 0), <<>>, <<>>, FALSE, NoCall), "none", <<>>, "", <<>>, 0)

\* The body of a create-session request.
Body(phoneNumber, phoneLanguage, webLanguage) ==
    [phoneNumber |-> phoneNumber, phoneLanguage |-> phoneLanguage,
     webLanguage |-> webLanguage]

NoBody == Body("", "", "")

\* An HTTP request as its handler saw it, and the status code it answered
\* (0 while the answer waits for the outbound call).
Handled(kind, sessionId, event, participant, body, reply) ==
    [kind |-> kind, sessionId |-> sessionId, event |-> event,
     participant |-> participant, body |-> body, reply |-> reply]

\* The last step handled no HTTP request.
NoRequest == Handled("none", "", "", "", NoBody, 0)

\* The outcome of an external call: it returned `value`, or it threw.
Returned(value) == [ok |-> TRUE, value |-> value]

Threw == [ok |-> FALSE, value |-> <<>>]

\* ----------------------------------------------------------- media streams

\* A socket that handleMediaStream has accepted for a known session.
OpenSocket(sessionId, participant) ==
    [sessionId |-> sessionId, participant |-> participant,
     readyState |-> WS_OPEN, attached |-> TRUE]

\* The stream record handleMediaStream stores for socket ws.
StreamRecord(ws, sessionId, participant) ==
    [ws |-> ws, participant |-> participant, sessionId |-> sessionId]

\* A handleMediaStream that keeps the handle a key already has.
handleMediaStreamKeepFirst(sessionId, participant) ==
    LET ws == Len(conns) + 1
    IN  IF sessionId \notin activeSessions
        THEN /\ conns' = Append(conns,
                    [sessionId |-> sessionId, participant |-> participant,
                     readyState |-> WS_CLOSING, attached |-> FALSE])
             /\ UNCHANGED activeStreams
        ELSE /\ conns' = Append(conns, OpenSocket(sessionId, participant))
             /\ activeStreams' =
                    IF StreamKey(sessionId, participant) \in DOMAIN activeStreams
                    THEN activeStreams
                    ELSE MapSet(activeStreams, StreamKey(sessionId, participant),
                                StreamRecord(ws, sessionId, participant))

\* A handleMediaStream that stores the handle before it looks the session
\* up.
handleMediaStreamStoreFirst(sessionId, participant) ==
    LET ws == Len(conns) + 1
    IN  /\ activeStreams' = MapSet(activeStreams,
               StreamKey(sessionId, participant),
               StreamRecord(ws, sessionId, participant))
        /\ conns' = Append(conns,
               IF sessionId \notin activeSessions
               THEN [sessionId |-> sessionId, participant |-> participant,
                     readyState |-> WS_CLOSING, attached |-> FALSE]
               ELSE OpenSocket(sessionId, participant))

\* handleMediaStream(ws, sessionId, participant), lines 582-594: without a
\* session the socket is closed and gets no handlers; with one it is stored
\* under the stream key, replacing whatever the key held.
handleMediaStream(sessionId, participant) ==
    LET ws == Len(conns) + 1
    IN  IF sessionId \notin activeSessions
        THEN /\ conns' = Append(conns,
                    [sessionId |-> sessionId, participant |-> participant,
                     readyState |-> WS_CLOSING, attached |-> FALSE])
             /\ UNCHANGED activeStreams
        ELSE /\ conns' = Append(conns, OpenSocket(sessionId, participant))
             /\ activeStreams' = MapSet(activeStreams,
                    StreamKey(sessionId, participant),
                    StreamRecord(ws, sessionId, participant))

\* wss.on('connection') for a /media-stream URL.
Connect(sessionId, participant) ==
    /\ Len(conns) < MaxConns
    /\ handleMediaStream(sessionId, participant)
    /\ UNCHANGED <<lifecycleVars, pipelineVars, feedVars, codec>>
    /\ ended' = NoEnd
    /\ handled' = NoRequest

\* A socket that is read only while no invocation is under way.
ReceivingWhenIdle(c) ==
    /\ c \in 1..Len(conns)
    /\ conns[c].attached
    /\ conns[c].readyState = WS_OPEN
    /\ tasks = {}

\* A socket may receive messages while it is open and has handlers.
Receiving(c) ==
    /\ c \in 1..Len(conns)
    /\ conns[c].attached
    /\ conns[c].readyState = WS_OPEN

\* ws.on('message') for 'connected' and 'start': streamSid, the only thing
\* assigned, is never read.
MessageConnectedOrStart(c) ==
    /\ Receiving(c)
    /\ ended' = NoEnd
    /\ handled' = NoRequest
    /\ UNCHANGED <<lifecycleVars, streamVars, pipelineVars, feedVars, codec>>

\* ws.on('message') for 'stop': activeStreams.delete(streamKey).
MessageStop(c) ==
    /\ Receiving(c)
    /\ activeStreams' =
           MapDelete(activeStreams, StreamKey(conns[c].sessionId, conns[c].participant))
    /\ UNCHANGED <<conns, lifecycleVars, pipelineVars, feedVars, codec>>
    /\ ended' = NoEnd
    /\ handled' = NoRequest

\* The peer's close frame arrives: the socket leaves OPEN before its
\* 'close' event is dispatched.
SocketClosing(c) ==
    /\ c \in 1..Len(conns)
    /\ conns[c].readyState = WS_OPEN
    /\ conns' = [conns EXCEPT ![c].readyState = WS_CLOSING]
    /\ UNCHANGED <<activeStreams, lifecycleVars, pipelineVars, feedVars, codec>>
    /\ ended' = NoEnd
    /\ handled' = NoRequest

\* The socket closes; ws.on('close'), when attached, deletes the stream key.
SocketClose(c) ==
    /\ c \in 1..Len(conns)
    /\ conns[c].readyState # WS_CLOSED
    /\ conns' = [conns EXCEPT ![c].readyState = WS_CLOSED]
    /\ activeStreams' =
           IF conns[c].attached
           THEN MapDelete(activeStreams,
                    StreamKey(conns[c].sessionId, conns[c].participant))
           ELSE activeStreams
    /\ UNCHANGED <<lifecycleVars, pipelineVars, feedVars, codec>>
    /\ ended' = NoEnd
    /\ handled' = NoRequest


\* ---------------------------------------------------------------- pipeline

\* A resolution that takes every speaker for a French one.
SourceLanguageFixed(sess, sourceParticipant) == "fr"

\* sourceParticipant === 'phone' ? languages.phone : languages.web
SourceLanguage(sess, sourceParticipant) ==
    IF sourceParticipant = "phone" THEN sess.languages.phone ELSE sess.languages.web

\* sourceParticipant === 'phone' ? languages.web : languages.phone
TargetLanguage(sess, sourceParticipant) ==
    IF sourceParticipant = "phone" THEN sess.languages.web ELSE sess.languages.phone

\* A router that sends a frame back to the leg it came from.
EchoParticipant(sourceParticipant) == sourceParticipant

\* sourceParticipant === 'phone' ? 'web' : 'phone'
TargetParticipant(sourceParticipant) ==
    IF sourceParticipant = "phone" THEN "web" ELSE "phone"

\* A pipeline that has lost the language test: it never skips.
NeverSameLanguage(sourceLanguage, targetLanguage) == FALSE

\* The test that skips the pipeline: sourceLanguage === targetLanguage.
SameLanguage(sourceLanguage, targetLanguage) == sourceLanguage = targetLanguage

\* A lookup by participant alone, under the first session's id.
DeliveryKeyByParticipant(sess, targetParticipant) == StreamKey(IdPool[1], targetParticipant)

\* The stream key sendAudioToParticipant looks up.
DeliveryKey(sess, targetParticipant) == StreamKey(sess.sessionId, targetParticipant)

\* A send that does not look at the socket's readyState.
CanSendAlways(stream) == TRUE

\* stream.ws.readyState === 1
CanSend(stream) == conns[stream.ws].readyState = WS_OPEN

\* The message sendAudioToParticipant builds.
MediaMessage(sess, targetParticipant, audioData) ==
    [event |-> "media",
     streamSid |-> <<"stream", sess.sessionId, targetParticipant>>,
     payload |-> audioData]

\* sendAudioToParticipant(audioData, targetParticipant, session), lines
\* 850-876: the socket written to (0 when none is) and the message.
sendAudioToParticipant(audioData, targetParticipant, sess) ==
    LET streamKey == DeliveryKey(sess, targetParticipant)
        mediaMessage == MediaMessage(sess, targetParticipant, audioData)
    IN  IF streamKey \notin DOMAIN activeStreams
        THEN [outcome |-> "no_stream", ws |-> 0, message |-> mediaMessage]
        ELSE IF CanSend(activeStreams[streamKey])
             THEN [outcome |-> "sent", ws |-> activeStreams[streamKey].ws,
                   message |-> mediaMessage]
             ELSE [outcome |-> "not_open", ws |-> 0, message |-> mediaMessage]

\* A translateText whose catch block returns an empty text.
translateTextNoFallback(text, completion) ==
    IF completion.ok THEN Trim(completion.value) ELSE <<>>

\* translateText(text, fromLang, toLang) once the completion has returned
\* or thrown: the trimmed content, or the text it was given.
translateText(text, completion) ==
    IF completion.ok THEN Trim(completion.value) ELSE text

\* translateAndForwardAudio up to its first pending call, lines 689-707:
\* the language test, the decoding, and the transcription request.
translateAndForwardAudio(audioData, sourceParticipant, sess, frame) ==
    LET sourceLanguage == SourceLanguage(sess, sourceParticipant)
        targetLanguage == TargetLanguage(sess, sourceParticipant)
    IN  IF SameLanguage(sourceLanguage, targetLanguage)
        THEN /\ ended' = Ended(Task(frame, audioData, NULL, FALSE, NoCall),
                                "skipped", <<>>, "", <<>>, 0)
             /\ UNCHANGED tasks
        ELSE IF \E b \in ByteValues(audioData) : ~IsInt16(mulawToLinear(b))
             THEN /\ ended' = Ended(Task(frame, audioData, NULL, FALSE, NoCall),
                                     "error", <<>>, "", <<>>, 0)
                  /\ UNCHANGED tasks
             ELSE /\ tasks' = tasks \cup
                         {Task(frame, audioData, NULL, FALSE,
                               ServiceCall("transcribe", <<>>, sourceLanguage, ""))}
                  /\ ended' = NoEnd

\* processAudioForTranslation(mediaMsg, participant, session, senderWs),
\* lines 657-686, for the decoded payload audioData.
processAudioForTranslation(audioData, participant, sess) ==
    LET sid == sess.sessionId
        bufferKey == StreamKey(sid, participant)
        held == IF bufferKey \in DOMAIN sess.audioBuffers
                THEN sess.audioBuffers[bufferKey] ELSE <<>>
        buffer == BufferConcat(held, audioData)
        cut == IF bufferKey \in DOMAIN emitted THEN emitted[bufferKey] ELSE <<>>
    IN  IF AudioLen(buffer) >= chunkSize
        THEN LET audioToProcess == BufferTake(buffer, chunkSize)
                 remainingBuffer == BufferDrop(buffer, chunkSize)
             IN  /\ session' = [session EXCEPT ![sid].audioBuffers =
                                    MapSet(@, bufferKey, remainingBuffer)]
                 /\ emitted' = MapSet(emitted, bufferKey, Append(cut, audioToProcess))
                 /\ translateAndForwardAudio(audioToProcess, participant, sess,
                                             Frame(sid, participant, Len(cut) + 1))
        ELSE /\ session' = [session EXCEPT ![sid].audioBuffers =
                                MapSet(@, bufferKey, buffer)]
             /\ ended' = NoEnd
             /\ UNCHANGED <<tasks, emitted>>

\* ws.on('message') for 'media' carrying len bytes; the handler's session is
\* the object it found when the socket connected.
Media(c, len, limit) ==
    /\ Receiving(c)
    /\ nMedia < limit
    /\ LET key == StreamKey(conns[c].sessionId, conns[c].participant)
           sofar == IF key \in DOMAIN fedLen THEN fedLen[key] ELSE 0
       IN  /\ processAudioForTranslation(Chunk(sofar, len), conns[c].participant,
                                         session[conns[c].sessionId])
           /\ fedLen' = MapSet(fedLen, key, sofar + len)
    /\ nMedia' = nMedia + 1
    /\ UNCHANGED <<activeSessions, pendingCreate, timers, nEvents, script,
                   streamVars, sent, codec>>
    /\ handled' = NoRequest

MessageMedia(c, len) == Media(c, len, MaxMedia)

\* The transcription request of invocation t returns (null when it failed):
\* without speech the invocation returns, with speech it asks for the
\* translation.
TranscribeReturn(t, transcription) ==
    /\ t \in tasks
    /\ t.call.service = "transcribe"
    /\ LET sess == session[t.frame.sessionId]
       IN  IF NoSpeech(transcription)
           THEN /\ tasks' = tasks \ {t}
                /\ ended' = Ended(t, "silence", <<>>, "", <<>>, 0)
           ELSE /\ tasks' = (tasks \ {t}) \cup
                       {Task(t.frame, t.audioData, transcription, FALSE,
                             ServiceCall("translate", transcription,
                                         SourceLanguage(sess, t.frame.source),
                                         TargetLanguage(sess, t.frame.source)))}
                /\ ended' = NoEnd
    /\ UNCHANGED <<lifecycleVars, streamVars, sent, feedVars, codec>>
    /\ handled' = NoRequest

\* The chat completion of invocation t returns or throws; translateText
\* never throws, and the speech request follows.
TranslateReturn(t, completion) ==
    /\ t \in tasks
    /\ t.call.service = "translate"
    /\ LET sess == session[t.frame.sessionId]
           translation == translateText(t.transcription, completion)
       IN  tasks' = (tasks \ {t}) \cup
               {Task(t.frame, t.audioData, t.transcription, ~completion.ok,
                     ServiceCall("synthesize", translation, "",
                                 TargetLanguage(sess, t.frame.source)))}
    /\ ended' = NoEnd
    /\ handled' = NoRequest
    /\ UNCHANGED <<lifecycleVars, streamVars, sent, feedVars, codec>>

\* A catch block that also gives up the stream the frame came from.
DropStreamOnError(streams, frame) ==
    MapDelete(streams, StreamKey(frame.sessionId, frame.source))

\* A synthesizeSpeech whose catch block returns an empty buffer.
synthesizeSpeechSilent(completion) ==
    IF completion.ok THEN completion ELSE Returned(<<>>)

\* synthesizeSpeech(text, language) once the speech request has returned or
\* thrown, lines 832-847: the buffer, or the error thrown again.
synthesizeSpeech(completion) == completion

\* What the catch block of translateAndForwardAudio does to the stream
\* table: it logs, and nothing else.
OnPipelineError(streams, frame) == streams

\* The speech request of invocation t returns or throws: a throw ends the
\* invocation in the catch block; audio is encoded and sent on.
SynthesizeReturn(t, speech) ==
    /\ t \in tasks
    /\ t.call.service = "synthesize"
    /\ tasks' = tasks \ {t}
    /\ LET sess == session[t.frame.sessionId]
           translatedAudio == synthesizeSpeech(speech)
       IN  IF ~translatedAudio.ok
           THEN /\ ended' = Ended(t, "synth_error", <<>>, "", <<>>, 0)
                /\ activeStreams' = OnPipelineError(activeStreams, t.frame)
                /\ UNCHANGED sent
           ELSE LET mulawAudio == convertWavToMulaw(translatedAudio.value)
                    target == TargetParticipant(t.frame.source)
                    out == sendAudioToParticipant(mulawAudio, target, sess)
                IN  /\ ended' = Ended(t, out.outcome, translatedAudio.value, target,
                                       mulawAudio, out.ws)
                    /\ sent' = IF out.outcome = "sent"
                               THEN sent \cup {[ws |-> out.ws, message |-> out.message,
                                                frame |-> t.frame]}
                               ELSE sent
                    /\ UNCHANGED activeStreams
    /\ UNCHANGED <<lifecycleVars, conns, feedVars, codec>>
    /\ handled' = NoRequest

\* The calls to the speech services that are under way.
PendingCalls == {[frame |-> t.frame, call |-> t.call] : t \in tasks}

\* --------------------------------------------------------------- lifecycle

\* Request bodies of create-session: a missing and a given phone number,
\* and a language code in and one out of SUPPORTED_LANGUAGES.
PhoneNumbers == {"", "+15550100"}

RequestLangs == {"en", "xx"}

CallStatuses == {"initiated", "ringing", "answered", "completed", "failed"}

ConferenceEvents ==
    {"participant-join", "participant-leave", "conference-start", "conference-end"}

\* A validation that accepts every language code.
AnyLanguage(code) == FALSE

\* !SUPPORTED_LANGUAGES[code]
Unsupported(code) == code \notin Langs

\* The reference scenario of the session state machine, as the events a
\* session must process in order; "*" stands for either participant.
Scenario ==
    <<[kind |-> "call-status", event |-> "answered", participant |-> "*"],
      [kind |-> "conference-status", event |-> "participant-join", participant |-> "phone"],
      [kind |-> "conference-status", event |-> "conference-start", participant |-> "*"],
      [kind |-> "conference-status", event |-> "participant-join", participant |-> "web"],
      [kind |-> "conference-status", event |-> "conference-end", participant |-> "*"]>>

\* The script position of a session after it has processed an event: one
\* further when the event is the scenario's next, -1 (off the scenario) when
\* it is not, or when its create-session request has not finished yet.
Advance(pos, id, kind, event, participant) ==
    IF pos >= 0 /\ pos < Len(Scenario) /\ id \notin pendingCreate
       /\ Scenario[pos + 1].kind = kind /\ Scenario[pos + 1].event = event
       /\ Scenario[pos + 1].participant \in {"*", participant}
    THEN pos + 1
    ELSE -1

\* app.post('/create-session'), lines 260-293, up to the await of
\* client.calls.create: a request without a phone number or with an
\* unsupported language is answered 400 and changes nothing.
CreateSession(phoneNumber, phoneLanguage, webLanguage) ==
    /\ IF phoneNumber = "" \/ Unsupported(phoneLanguage) \/ Unsupported(webLanguage)
       THEN /\ handled' = Handled("create-session", "", "request", "",
                                  Body(phoneNumber, phoneLanguage, webLanguage), 400)
            /\ UNCHANGED <<activeSessions, session, pendingCreate, timers, script, nEvents>>
       ELSE /\ Cardinality(DOMAIN session) < MaxSessions
            /\ nEvents < MaxEvents
            /\ nEvents' = nEvents + 1
            /\ LET sessionId == IdPool[Cardinality(DOMAIN session) + 1]
               IN  /\ handled' = Handled("create-session", sessionId, "request", "",
                                         Body(phoneNumber, phoneLanguage, webLanguage), 0)
                   /\ activeSessions' = activeSessions \cup {sessionId}
                   /\ session' = MapSet(session, sessionId,
                                        NewSession(sessionId, phoneNumber, phoneLanguage,
                                                   webLanguage))
                   /\ pendingCreate' = pendingCreate \cup {sessionId}
                   /\ timers' = MapSet(timers, sessionId, 0)
                   /\ script' = MapSet(script, sessionId, 0)
    /\ ended' = NoEnd
    /\ UNCHANGED <<streamVars, pipelineVars, feedVars, codec>>

\* client.calls.create resolves, lines 304-306: the session found in the
\* table becomes phone_calling; when the table no longer holds it the
\* assignment throws and the request is answered 500.
CallPlaced(sessionId) ==
    /\ sessionId \in pendingCreate
    /\ pendingCreate' = pendingCreate \ {sessionId}
    /\ session' = IF sessionId \in activeSessions
                  THEN [session EXCEPT ![sessionId].status = "phone_calling"]
                  ELSE session
    /\ handled' = Handled("create-session", sessionId, "placed", "", NoBody,
                          IF sessionId \in activeSessions THEN 200 ELSE 500)
    /\ ended' = NoEnd
    /\ UNCHANGED <<activeSessions, timers, nEvents, script, streamVars,
                   pipelineVars, feedVars, codec>>

\* client.calls.create rejects, lines 315-318: the request is answered 500
\* and the session stays as it was stored.
CallFailed(sessionId) ==
    /\ sessionId \in pendingCreate
    /\ pendingCreate' = pendingCreate \ {sessionId}
    /\ handled' = Handled("create-session", sessionId, "failed", "", NoBody, 500)
    /\ ended' = NoEnd
    /\ UNCHANGED <<activeSessions, session, timers, nEvents, script, streamVars,
                   pipelineVars, feedVars, codec>>

\* A lookup that finds every session ever stored.
KnownEver(sessionId) == sessionId \in DOMAIN session

\* sessionId && activeSessions.has(sessionId): the lookup of the status
\* handlers.
Known(sessionId) == sessionId # "" /\ sessionId \in activeSessions

\* A call-status update that takes a failed call for one still ringing.
callStatusUpdateNoFailed(sess, CallStatus) ==
    IF CallStatus = "answered" THEN [sess EXCEPT !.status = "phone_answered"]
    ELSE IF CallStatus = "completed"
         THEN [sess EXCEPT !.status = "call_ended"]
         ELSE sess

\* The status a call-status event leaves, lines 502-506; lastCallStatus and
\* lastStatusUpdate, which it also writes, are read nowhere.
callStatusUpdate(sess, CallStatus) ==
    IF CallStatus = "answered" THEN [sess EXCEPT !.status = "phone_answered"]
    ELSE IF CallStatus \in {"completed", "failed"}
         THEN [sess EXCEPT !.status = "call_ended"]
         ELSE sess

\* app.post('/call-status'), lines 489-512.
CallStatusEvent(sessionId, CallStatus) ==
    /\ nEvents < MaxEvents
    /\ nEvents' = nEvents + 1
    /\ handled' = Handled("call-status", sessionId, CallStatus, "", NoBody, 200)
    /\ IF Known(sessionId)
       THEN /\ session' = [session EXCEPT ![sessionId] = callStatusUpdate(@, CallStatus)]
            /\ script' = [script EXCEPT ![sessionId] =
                             Advance(@, sessionId, "call-status", CallStatus, "*")]
       ELSE UNCHANGED <<session, script>>
    /\ ended' = NoEnd
    /\ UNCHANGED <<activeSessions, pendingCreate, timers, streamVars,
                   pipelineVars, feedVars, codec>>

\* A conference-status update that takes every joining leg for the phone.
conferenceStatusUpdateOneLeg(sess, StatusCallbackEvent, participantType) ==
    IF StatusCallbackEvent = "participant-join"
    THEN [sess EXCEPT !.status = "phone_in_conference"]
    ELSE IF StatusCallbackEvent = "participant-leave"
    THEN IF participantType \in DOMAIN sess.participants
         THEN [sess EXCEPT !.participants[participantType].leftAt = TRUE]
         ELSE sess
    ELSE IF StatusCallbackEvent = "conference-start"
    THEN [sess EXCEPT !.status = "conference_active"]
    ELSE IF StatusCallbackEvent = "conference-end"
    THEN [sess EXCEPT !.status = "conference_ended"]
    ELSE sess

\* A conference-status update that ends the call when a leg leaves.
conferenceStatusUpdateLeaveEnds(sess, StatusCallbackEvent, participantType) ==
    IF StatusCallbackEvent = "participant-join"
    THEN IF participantType = "web" THEN [sess EXCEPT !.status = "web_joined"]
         ELSE IF participantType = "phone"
              THEN [sess EXCEPT !.status = "phone_in_conference"]
              ELSE sess
    ELSE IF StatusCallbackEvent = "participant-leave"
    THEN IF participantType \in DOMAIN sess.participants
         THEN [sess EXCEPT !.participants[participantType].leftAt = TRUE,
                           !.status = "call_ended"]
         ELSE sess
    ELSE IF StatusCallbackEvent = "conference-start"
    THEN [sess EXCEPT !.status = "conference_active"]
    ELSE IF StatusCallbackEvent = "conference-end"
    THEN [sess EXCEPT !.status = "conference_ended"]
    ELSE sess

\* The session a conference-status event leaves, the switch of lines
\* 526-557 (participant-leave stamps the leg's record when there is one).
conferenceStatusUpdate(sess, StatusCallbackEvent, participantType) ==
    IF StatusCallbackEvent = "participant-join"
    THEN IF participantType = "web" THEN [sess EXCEPT !.status = "web_joined"]
         ELSE IF participantType = "phone"
              THEN [sess EXCEPT !.status = "phone_in_conference"]
              ELSE sess
    ELSE IF StatusCallbackEvent = "participant-leave"
    THEN IF participantType \in DOMAIN sess.participants
         THEN [sess EXCEPT !.participants[participantType].leftAt = TRUE]
         ELSE sess
    ELSE IF StatusCallbackEvent = "conference-start"
    THEN [sess EXCEPT !.status = "conference_active"]
    ELSE IF StatusCallbackEvent = "conference-end"
    THEN [sess EXCEPT !.status = "conference_ended"]
    ELSE sess

\* The cleanup timers a conference-status event schedules for the session:
\* one setTimeout on conference-end.
TimersScheduled(StatusCallbackEvent) ==
    IF StatusCallbackEvent = "conference-end" THEN 1 ELSE 0

\* app.post('/conference-status'), lines 515-563.
ConferenceStatusEvent(sessionId, participantType, StatusCallbackEvent) ==
    /\ nEvents < MaxEvents
    /\ nEvents' = nEvents + 1
    /\ handled' = Handled("conference-status", sessionId, StatusCallbackEvent,
                          participantType, NoBody, 200)
    /\ IF Known(sessionId)
       THEN /\ session' = [session EXCEPT ![sessionId] =
                    conferenceStatusUpdate(@, StatusCallbackEvent, participantType)]
            /\ timers' = [timers EXCEPT ![sessionId] =
                             @ + TimersScheduled(StatusCallbackEvent)]
            /\ script' = [script EXCEPT ![sessionId] =
                             Advance(@, sessionId, "conference-status",
                                     StatusCallbackEvent, participantType)]
       ELSE UNCHANGED <<session, timers, script>>
    /\ ended' = NoEnd
    /\ UNCHANGED <<activeSessions, pendingCreate, streamVars, pipelineVars,
                   feedVars, codec>>

\* A cleanup timer whose callback deletes nothing.
KeepSession(table, sessionId) == table

\* What the cleanup timer leaves of the session table, line 553.
CleanUp(table, sessionId) == table \ {sessionId}

\* A cleanup timer fires, 60 seconds after its conference-end.
TimerFires(sessionId) ==
    /\ sessionId \in DOMAIN timers
    /\ timers[sessionId] > 0
    /\ timers' = [timers EXCEPT ![sessionId] = @ - 1]
    /\ activeSessions' = CleanUp(activeSessions, sessionId)
    /\ ended' = NoEnd
    /\ handled' = NoRequest
    /\ UNCHANGED <<session, pendingCreate, nEvents, script, streamVars,
                   pipelineVars, feedVars, codec>>

\* ------------------------------------------------------------ inbound calls

\* The record a joining leg gets in session.participants (callSid, from, to
\* and joinedAt are not modelled); a record has a leave time only once
\* participant-leave has set one.
NewParticipant == [leftAt |-> FALSE]

\* The stream key no TwiML response names.
NoStream == StreamKey("", "")

\* The TwiML a voice webhook answers with: what it says, whether it hangs
\* up, the media stream it starts and the conference it dials.
Twiml(say, hangup, stream, conference) ==
    [say |-> say, hangup |-> hangup, stream |-> stream, conference |-> conference]

\* response.say(message) followed by response.hangup(); the messages are
\* 'Sorry, this session is not available...' and 'No active translation
\* session found...' with one of two endings.
Apology(message) == Twiml(message, TRUE, NoStream, "")

\* connect.stream for the leg's key and dial.conference for the session.
JoinConference(sessionId, participant) ==
    Twiml("", FALSE, StreamKey(sessionId, participant), sessionId)

\* A voice webhook as its handler saw it: the session and type parameters of
\* the query, whether From starts with 'client:', and the TwiML answered.
HandledCall(kind, sessionId, type, fromClient, twiml) ==
    [kind |-> kind, sessionId |-> sessionId, event |-> "", participant |-> type,
     body |-> NoBody, reply |-> 200, fromClient |-> fromClient, twiml |-> twiml]

\* The position of a session id in the order the ids were issued, which is
\* the order of createdAt and of the registry's iteration.
Issued(sessionId) == CHOOSE i \in 1..Len(IdPool) : IdPool[i] = sessionId

\* A test that lets a web caller into a session in any status.
JoinableAlways(sess) == TRUE

\* A session a web caller may be attached to.
Joinable(sess) == sess.status \in {"phone_answered", "phone_calling"}

\* The registered sessions a web caller may be attached to.
JoinableSessions == {id \in activeSessions : Joinable(session[id])}

\* The most recently created of them, as handleIncomingCall sorts them.
recentSession ==
    CHOOSE id \in JoinableSessions :
        \A other \in JoinableSessions : Issued(other) <= Issued(id)

\* The first of them in the registry's order, as handleWebCall finds it.
availableSession ==
    CHOOSE id \in JoinableSessions :
        \A other \in JoinableSessions : Issued(id) <= Issued(other)

\* req.query.type || 'phone'.
ParticipantType(type) == IF type = "" THEN "phone" ELSE type

\* handleWebCallWithSession's writes to the session.
handleWebCallWithSession(sess) ==
    [sess EXCEPT !.participants = MapSet(@, "web", NewParticipant),
                 !.status = "web_joining"]

\* handleIncomingCall's write to the session it was given.
joinParticipant(sess, participantType) ==
    [sess EXCEPT !.participants = MapSet(@, participantType, NewParticipant)]

\* POST /incoming-call.
IncomingCall(sessionId, type, fromClient) ==
    /\ nEvents < MaxEvents
    /\ nEvents' = nEvents + 1
    /\ LET participantType == ParticipantType(type)
       IN  IF participantType = "web" /\ sessionId = "" /\ fromClient
           THEN IF JoinableSessions # {}
                THEN /\ session' = [session EXCEPT ![recentSession] =
                                       handleWebCallWithSession(@)]
                     /\ handled' = HandledCall("incoming-call", sessionId, type,
                                       fromClient, JoinConference(recentSession, "web"))
                ELSE /\ UNCHANGED session
                     /\ handled' = HandledCall("incoming-call", sessionId, type,
                                       fromClient, Apology("start_new_session"))
           ELSE IF ~Known(sessionId)
                THEN /\ UNCHANGED session
                     /\ handled' = HandledCall("incoming-call", sessionId, type,
                                       fromClient, Apology("not_available"))
                ELSE /\ session' = [session EXCEPT ![sessionId] =
                                       joinParticipant(@, participantType)]
                     /\ handled' = HandledCall("incoming-call", sessionId, type,
                                       fromClient,
                                       JoinConference(sessionId, participantType))
    /\ ended' = NoEnd
    /\ UNCHANGED <<activeSessions, pendingCreate, timers, script, streamVars,
                   pipelineVars, feedVars, codec>>

\* POST /voice.
handleWebCall ==
    /\ nEvents < MaxEvents
    /\ nEvents' = nEvents + 1
    /\ IF JoinableSessions # {}
       THEN /\ session' = [session EXCEPT ![availableSession] =
                              [@ EXCEPT !.status = "web_joining",
                                        !.participants =
                                            MapSet(@, "web", NewParticipant)]]
            /\ handled' = HandledCall("voice", "", "", TRUE,
                              JoinConference(availableSession, "web"))
       ELSE /\ UNCHANGED session
            /\ handled' = HandledCall("voice", "", "", TRUE,
                                          Apology("start_phone_session"))
    /\ ended' = NoEnd
    /\ UNCHANGED <<activeSessions, pendingCreate, timers, script, streamVars,
                   pipelineVars, feedVars, codec>>

\* ------------------------------------------------------------------- codec

IdleCodec == [pc |-> "idle", mulaw |-> 0, linear |-> 0, out |-> 0]

\* mulawToLinear of the byte, written with writeInt16LE (which throws on a
\* value outside the 16-bit range).
Decode ==
    /\ codec.pc = "byte"
    /\ LET linear == mulawToLinear(codec.mulaw)
       IN  codec' = IF IsInt16(linear)
                    THEN [codec EXCEPT !.pc = "decoded", !.linear = linear]
                    ELSE [codec EXCEPT !.pc = "threw"]
    /\ UNCHANGED <<lifecycleVars, streamVars, pipelineVars, feedVars>>
    /\ ended' = NoEnd
    /\ handled' = NoRequest

\* linearToMulaw of the sample, stored in a Buffer element.
Encode ==
    /\ codec.pc = "decoded"
    /\ codec' = [codec EXCEPT !.pc = "encoded",
                              !.out = ToUint8(linearToMulaw(codec.linear))]
    /\ UNCHANGED <<lifecycleVars, streamVars, pipelineVars, feedVars>>
    /\ ended' = NoEnd
    /\ handled' = NoRequest

\* ---------------------------------------------------------- specifications

\* A session whose outbound call has been placed.
Placed(sess) == [sess EXCEPT !.status = "phone_calling"]

\* The phone leg and then the web leg of session id have connected.
BothLegsConnected(id) ==
    /\ conns = <<OpenSocket(id, "phone"), OpenSocket(id, "web")>>
    /\ activeStreams =
           [key \in {StreamKey(id, "phone"), StreamKey(id, "web")} |->
               IF key[2] = "phone" THEN StreamRecord(1, id, "phone")
               ELSE StreamRecord(2, id, "web")]

\* The key socket c of `sockets` connected for.
KeyOfSocket(sockets, c) == StreamKey(sockets[c].sessionId, sockets[c].participant)

\* Nothing has been fed and no invocation has started.
QuietPipeline ==
    /\ tasks = {}
    /\ sent = {}
    /\ emitted = EmptyMap
    /\ ended = NoEnd
    /\ handled = NoRequest
    /\ fedLen = EmptyMap
    /\ nMedia = 0

\* Nothing has connected and nothing has been fed.
QuietStreams ==
    /\ conns = <<>>
    /\ activeStreams = EmptyMap
    /\ QuietPipeline

\* The sessions of `ids` have been created and their calls placed: s1 with
\* different or with equal languages, s2 with the languages the other way.
LiveSessions(ids) ==
    /\ activeSessions = ids
    /\ \E webLanguage \in Langs :
           session = [id \in ids |->
                         IF id = "s1"
                         THEN Placed(NewSession(id, "+15550100", "es", webLanguage))
                         ELSE Placed(NewSession(id, "+15550100", "en", "es"))]
    /\ pendingCreate = {}
    /\ timers = [id \in ids |-> 0]
    /\ nEvents = 0
    /\ script = [id \in ids |-> 0]

\* What the speech services may answer to the invocations under way.
ServiceReturn ==
    \/ \E t \in tasks, transcription \in Transcripts :
           TranscribeReturn(t, transcription)
    \/ \E t \in tasks, content \in Translations :
           TranslateReturn(t, Returned(content))
    \/ \E t \in tasks : TranslateReturn(t, Threw)
    \/ \E t \in tasks, audio \in SynthAudios :
           SynthesizeReturn(t, Returned(audio))
    \/ \E t \in tasks : SynthesizeReturn(t, Threw)

\* The relay: both legs of one live session have connected (phone first);
\* they carry audio, stop and close while the speech services answer.
InitRelay ==
    /\ LiveSessions({"s1"})
    /\ BothLegsConnected("s1")
    /\ QuietPipeline
    /\ codec = IdleCodec

NextRelay ==
    \/ \E c \in 1..Len(conns) : MessageConnectedOrStart(c)
    \/ \E c \in 1..Len(conns), len \in RelayLens : MessageMedia(c, len)
    \/ \E c \in 1..Len(conns) : MessageStop(c)
    \/ \E c \in 1..Len(conns) : SocketClosing(c)
    \/ \E c \in 1..Len(conns) : SocketClose(c)
    \/ ServiceReturn

SpecRelay == InitRelay /\ [][NextRelay]_vars

\* Isolation: two sessions are live and both legs of s1 have connected;
\* further sockets connect for either session, and all carry audio while
\* the speech services answer.
InitIsolation ==
    /\ LiveSessions(RelaySessions)
    /\ BothLegsConnected("s1")
    /\ QuietPipeline
    /\ codec = IdleCodec

MessageMediaIsolation(c, len) == Media(c, len, MaxFrames)

NextIsolation ==
    \/ \E sessionId \in RelaySessions, participant \in ParticipantTypes :
           Connect(sessionId, participant)
    \/ \E c \in 1..Len(conns), len \in RelayLens : MessageMediaIsolation(c, len)
    \/ \E c \in 1..Len(conns) : SocketClose(c)
    \/ ServiceReturn

SpecIsolation == InitIsolation /\ [][NextIsolation]_vars

\* The lifecycle: sessions are created, their calls placed, and the
\* provider's status events arrive for known and unknown session ids.
Init ==
    /\ activeSessions = {}
    /\ session = EmptyMap
    /\ pendingCreate = {}
    /\ timers = EmptyMap
    /\ nEvents = 0
    /\ script = EmptyMap
    /\ QuietStreams
    /\ codec = IdleCodec

Next ==
    \/ \E phoneNumber \in PhoneNumbers, phoneLanguage, webLanguage \in RequestLangs :
           CreateSession(phoneNumber, phoneLanguage, webLanguage)
    \/ \E sessionId \in pendingCreate : CallPlaced(sessionId)
    \/ \E sessionId \in pendingCreate : CallFailed(sessionId)
    \/ \E sessionId \in DOMAIN session \cup {UnknownId, MissingId},
          CallStatus \in CallStatuses :
           CallStatusEvent(sessionId, CallStatus)
    \/ \E sessionId \in DOMAIN session \cup {UnknownId, MissingId},
          participantType \in ParticipantTypes, event \in ConferenceEvents :
           ConferenceStatusEvent(sessionId, participantType, event)
    \/ \E sessionId \in DOMAIN session : TimerFires(sessionId)

Spec == Init /\ [][Next]_vars

\* The lifecycle with the clock running: a cleanup timer that has been
\* scheduled fires in the end.
SpecFair ==
    /\ Spec
    /\ \A sessionId \in {IdPool[i] : i \in 1..MaxSessions} :
           WF_vars(TimerFires(sessionId))

\* Framing: one stream of one leg receives media messages of every length;
\* the speech services are left pending, since no continuation of the
\* pipeline reads or writes an accumulator.
InitFraming ==
    /\ LiveSessions(RelaySessions)
    /\ \E sessionId \in RelaySessions, participant \in ParticipantTypes :
           /\ conns = <<OpenSocket(sessionId, participant)>>
           /\ activeStreams = MapSet(EmptyMap, StreamKey(sessionId, participant),
                                     StreamRecord(1, sessionId, participant))
    /\ QuietPipeline
    /\ codec = IdleCodec

FeedMedia(len) == Media(1, len, MaxFeeds)

NextFraming == \E len \in FramingLens : FeedMedia(len)

SpecFraming == InitFraming /\ [][NextFraming]_vars

\* The codec: each of the 256 bytes is decoded and encoded again.
InitCodec ==
    /\ activeSessions = {}
    /\ session = EmptyMap
    /\ pendingCreate = {}
    /\ timers = EmptyMap
    /\ nEvents = 0
    /\ script = EmptyMap
    /\ QuietStreams
    /\ \E b \in 0..255 : codec = [pc |-> "byte", mulaw |-> b, linear |-> 0, out |-> 0]

NextCodec == Decode \/ Encode

SpecCodec == InitCodec /\ [][NextCodec]_vars

\* Calls: a session whose outbound call has been placed and whose two legs
\* stream audio receives status events, voice webhooks and media messages
\* that stay below one frame.
CallTypes == {"", "web", "phone"}

InitCalls ==
    /\ LiveSessions({"s1"})
    /\ BothLegsConnected("s1")
    /\ QuietPipeline
    /\ codec = IdleCodec

MessageMediaCalls(c) == Media(c, 799, MaxFrames)

NextCalls ==
    \/ \E sessionId \in DOMAIN session, CallStatus \in CallStatuses :
           nEvents < MaxCalls /\ CallStatusEvent(sessionId, CallStatus)
    \/ \E sessionId \in DOMAIN session,
          participantType \in ParticipantTypes, event \in ConferenceEvents :
           nEvents < MaxCalls /\ ConferenceStatusEvent(sessionId, participantType, event)
    \/ \E sessionId \in DOMAIN session \cup {UnknownId, MissingId},
          type \in CallTypes, fromClient \in BOOLEAN :
           nEvents < MaxCalls /\ IncomingCall(sessionId, type, fromClient)
    \/ nEvents < MaxCalls /\ handleWebCall
    \/ \E sessionId \in DOMAIN session : TimerFires(sessionId)
    \/ \E c \in 1..Len(conns) : MessageMediaCalls(c)

SpecCalls == InitCalls /\ [][NextCalls]_vars

\* Ingestion: both legs of one session and the phone leg of another carry
\* whole frames while the speech services answer.
InitIngest ==
    /\ LiveSessions(RelaySessions)
    /\ conns = <<OpenSocket("s1", "phone"), OpenSocket("s1", "web"),
                 OpenSocket("s2", "phone")>>
    /\ activeStreams = [key \in {KeyOfSocket(conns, c) : c \in 1..3} |->
                           LET c == CHOOSE d \in 1..3 : KeyOfSocket(conns, d) = key
                           IN  StreamRecord(c, conns[c].sessionId, conns[c].participant)]
    /\ QuietPipeline
    /\ codec = IdleCodec

MessageMediaIngest(c, len) == Media(c, len, MaxMedia)

NextIngest ==
    \/ \E c \in 1..Len(conns), len \in RelayLens : MessageMediaIngest(c, len)
    \/ ServiceReturn

SpecIngest == InitIngest /\ [][NextIngest]_vars

\* Disconnection: the phone leg of a session whose conference has ended
\* carries media messages below one frame, stops, closes and connects again,
\* as do connections that name no session, before and after the session's
\* cleanup timer fires.
PartLens == {799}

InitDisconnect ==
    /\ activeSessions = {"s1"}
    /\ session = [id \in {"s1"} |->
                     [NewSession(id, "+15550100", "es", "es")
                          EXCEPT !.status = "conference_ended"]]
    /\ pendingCreate = {}
    /\ timers = [id \in {"s1"} |-> 1]
    /\ nEvents = 0
    /\ script = [id \in {"s1"} |-> 0]
    /\ conns = <<OpenSocket("s1", "phone")>>
    /\ activeStreams = MapSet(EmptyMap, StreamKey("s1", "phone"),
                              StreamRecord(1, "s1", "phone"))
    /\ QuietPipeline
    /\ codec = IdleCodec

MessageMediaDisconnect(c, len) == Media(c, len, MaxFeeds)

NextDisconnect ==
    \/ \E sessionId \in {"s1", UnknownId}, participant \in ParticipantTypes :
           Connect(sessionId, participant)
    \/ \E c \in 1..Len(conns), len \in PartLens : MessageMediaDisconnect(c, len)
    \/ \E c \in 1..Len(conns) : MessageStop(c)
    \/ \E c \in 1..Len(conns) : SocketClosing(c)
    \/ \E c \in 1..Len(conns) : SocketClose(c)
    \/ \E sessionId \in DOMAIN session : TimerFires(sessionId)

SpecDisconnect == InitDisconnect /\ [][NextDisconnect]_vars

\* Tags: connections for a live session arrive with the participant
\* parameter web, phone or another word; they carry whole frames and close
\* while the speech services answer.
StreamTags == ParticipantTypes \cup {"agent"}

InitTags ==
    /\ LiveSessions({"s1"})
    /\ QuietStreams
    /\ codec = IdleCodec

MessageMediaTags(c, len) == Media(c, len, MaxFrames)

NextTags ==
    \/ \E participant \in StreamTags : Connect("s1", participant)
    \/ \E c \in 1..Len(conns), len \in RelayLens : MessageMediaTags(c, len)
    \/ \E c \in 1..Len(conns) : SocketClose(c)
    \/ ServiceReturn

SpecTags == InitTags /\ [][NextTags]_vars

\* Web calls: a session whose outbound call has been placed receives
\* call-status events and web calls that name no session, on /voice and on
\* /incoming-call.
InitWebCalls == InitCalls

NextWebCalls ==
    \/ \E sessionId \in DOMAIN session, CallStatus \in CallStatuses :
           nEvents < MaxCalls /\ CallStatusEvent(sessionId, CallStatus)
    \/ nEvents < MaxCalls /\ IncomingCall(MissingId, "web", TRUE)
    \/ nEvents < MaxCalls /\ handleWebCall

SpecWebCalls == InitWebCalls /\ [][NextWebCalls]_vars

\* ------------------------------------------------------------------ claims

\* What a leg's key holds: the frames cut so far, the bytes fed so far, and
\* the accumulator.
FramesOf(key) == IF key \in DOMAIN emitted THEN emitted[key] ELSE <<>>

PendingOf(key) ==
    IF key \in DOMAIN session[key[1]].audioBuffers
    THEN session[key[1]].audioBuffers[key] ELSE <<>>

RECURSIVE Flatten(_)
Flatten(frames) ==
    IF frames = <<>> THEN <<>> ELSE Bytes(Head(frames)) \o Flatten(Tail(frames))

\* C1: for every key and every split of L bytes into media chunks, feeding
\* them emits exactly floor(L/1600) frames of exactly 1600 bytes, whose
\* concatenation is the first 1600*floor(L/1600) bytes received, and leaves
\* exactly L mod 1600 bytes pending.
C1_Framing ==
    \A key \in DOMAIN fedLen :
        LET L == fedLen[key]
            frames == FramesOf(key)
        IN  /\ Len(frames) = L \div chunkSize
            /\ \A i \in 1..Len(frames) : AudioLen(frames[i]) = chunkSize
            /\ AudioLen(PendingOf(key)) = L % chunkSize
            /\ Flatten(frames) = Bytes(Chunk(0, chunkSize * (L \div chunkSize)))

\* C10: after every completed feed of a media chunk, whatever its size, the
\* pending accumulator of the key holds strictly fewer than 1600 bytes.
C10_PendingBelowFrame ==
    \A key \in DOMAIN fedLen : AudioLen(PendingOf(key)) < chunkSize

\* C8: for each of the 256 byte values b, neither decode nor encode throws,
\* and encode(decode(b)) stored as a byte is within one code step of b.
C8_RoundTrip ==
    /\ codec.pc # "threw"
    /\ codec.pc = "encoded" => Abs(codec.out - codec.mulaw) <= 1

\* Two frames of one leg.
SameLeg(f, g) == f.sessionId = g.sessionId /\ f.source = g.source

\* C2: the audio of a frame is never delivered to the counterpart stream
\* while the invocation for an earlier frame of the same leg is still under
\* way, however the speech services' completions are ordered.
C2_PerKeyOrder ==
    \A m \in sent : \A t \in tasks :
        SameLeg(m.frame, t.frame) => m.frame.seq < t.frame.seq

\* C3: with two sessions present, every outbound media message produced
\* from a frame of one session is sent only on a channel that was registered
\* under that session's id, never on a channel of the other session.
C3_RoutingIsolation ==
    \A m \in sent : conns[m.ws].sessionId = m.frame.sessionId

\* A message of the first session has been sent while the second session
\* holds a registered stream.
C3_Witness ==
    /\ \E m \in sent : m.frame.sessionId = "s1"
    /\ \E key \in DOMAIN activeStreams : key[1] = "s2"

\* The session's two legs speak the same language.
Monolingual(sess) == sess.languages.web = sess.languages.phone

\* C4: for a session whose web language equals its phone language, no frame
\* of either leg causes a call to the transcription, translation or
\* synthesis service, and no outbound audio is routed for the session.
C4_SameLanguageSkip ==
    \A sid \in DOMAIN session :
        Monolingual(session[sid]) =>
            /\ \A t \in tasks : t.frame.sessionId # sid
            /\ \A m \in sent : m.frame.sessionId # sid
            /\ ended.task.frame.sessionId = sid => ended.outcome = "skipped"

\* A frame of a same-language session has gone through the language test.
C4_Witness ==
    /\ ended.outcome = "skipped"
    /\ Monolingual(session[ended.task.frame.sessionId])

\* The outcomes in which sendAudioToParticipant was called.
Routed == {"sent", "no_stream", "not_open"}

\* C5: when the translation call fails for a frame with a non-empty
\* transcript, the synthesis service is called with the transcript itself,
\* unchanged and non-empty, and when synthesis succeeds the encoded result
\* is routed to the counterpart leg.
C5_TranslationFallback ==
    /\ \A t \in tasks :
           t.call.service = "synthesize" /\ t.translateFailed =>
               /\ t.call.text = t.transcription
               /\ t.call.text # <<>>
               /\ t.call.text # NULL
    /\ ended.task.translateFailed /\ ended.outcome # "synth_error" =>
           /\ ended.outcome \in Routed
           /\ ended.target = TargetParticipant(ended.task.frame.source)
           /\ ended.payload = convertWavToMulaw(ended.speech)
           /\ ended.task.call.text = ended.task.transcription

\* After a failed translation the synthesized audio has been sent on the
\* counterpart's channel.
C5_Witness ==
    /\ ended.task.translateFailed
    /\ ended.outcome = "sent"
    /\ \E m \in sent : m.frame = ended.task.frame /\ m.message.payload = ended.payload

\* C6: delivering a payload to a (session, participant) key sends it exactly
\* when a channel is registered for the key and that channel is open;
\* otherwise delivery returns without error, sends nothing on any channel,
\* and leaves the stream table and the session table unchanged.
C6_Deliver ==
    [][ended'.outcome \in Routed =>
          LET key == StreamKey(ended'.task.frame.sessionId, ended'.target)
              registered == key \in DOMAIN activeStreams
              open == registered /\ conns[activeStreams[key].ws].readyState = WS_OPEN
              message == [ws |-> activeStreams[key].ws,
                          message |-> MediaMessage(session[key[1]], ended'.target,
                                                   ended'.payload),
                          frame |-> ended'.task.frame]
          IN  /\ open => sent' = sent \cup {message} /\ message \notin sent
              /\ ~open => sent' = sent
              /\ activeStreams' = activeStreams
              /\ activeSessions' = activeSessions
              /\ session' = session
              /\ conns' = conns]_vars

\* A payload was delivered to a key whose registered channel is not open.
C6_Witness ==
    /\ ended.outcome = "not_open"
    /\ StreamKey(ended.task.frame.sessionId, ended.target) \in DOMAIN activeStreams

\* C7: from a newly created session, the events call-status answered,
\* participant-join (phone), conference-start, participant-join (web),
\* conference-end leave the session with status conference_ended, and once
\* the teardown timer has fired the session is not in the registry.
C7_Scenario ==
    \A id \in DOMAIN script :
        script[id] = Len(Scenario) =>
            /\ session[id].status = "conference_ended"
            /\ timers[id] = 0 => id \notin activeSessions

\* The scenario has run and its teardown timer has fired.
C7_Witness ==
    \E id \in DOMAIN script :
        /\ script[id] = Len(Scenario)
        /\ timers[id] = 0
        /\ id \notin activeSessions

\* The outcomes in which a step of the pipeline failed for the frame.
Failed == {"silence", "synth_error", "no_stream", "not_open"}

\* C9: when a pipeline step fails for one frame, only that frame is
\* abandoned: the stream handles stay registered, the session stays in the
\* registry with its status and its accumulators unchanged, nothing is sent,
\* and every other invocation under way stays under way.
C9_FrameLocalFailure ==
    [][ended'.outcome \in Failed =>
          /\ activeStreams' = activeStreams
          /\ conns' = conns
          /\ activeSessions' = activeSessions
          /\ session' = session
          /\ sent' = sent
          /\ tasks' = tasks \ {ended'.task}]_vars

\* Synthesis has failed for one frame while another invocation is under way
\* and the source stream is registered.
C9_Witness ==
    /\ ended.outcome = "synth_error"
    /\ tasks # {}
    /\ StreamKey(ended.task.frame.sessionId, ended.task.frame.source)
           \in DOMAIN activeStreams

\* The key a socket connected for.
KeyOf(c) == StreamKey(conns[c].sessionId, conns[c].participant)

\* C11: the stream table holds at most one handle per (session id,
\* participant type) key, the handle of a socket that connected for that
\* key; and when a connection arrives for a key, known session, the table
\* afterwards maps the key to the new connection and every other key as
\* before.
C11_OneHandlePerKey ==
    /\ [](\A key \in DOMAIN activeStreams :
             /\ activeStreams[key].ws \in 1..Len(conns)
             /\ KeyOf(activeStreams[key].ws) = key
             /\ StreamKey(activeStreams[key].sessionId,
                          activeStreams[key].participant) = key)
    /\ [][Len(conns') = Len(conns) + 1 /\ conns'[Len(conns')].attached =>
            LET c == Len(conns')
                key == StreamKey(conns'[c].sessionId, conns'[c].participant)
            IN  /\ key \in DOMAIN activeStreams'
                /\ activeStreams'[key].ws = c
                /\ \A other \in DOMAIN activeStreams' \ {key} :
                       /\ other \in DOMAIN activeStreams
                       /\ activeStreams'[other] = activeStreams[other]
                /\ DOMAIN activeStreams \subseteq DOMAIN activeStreams']_vars

\* A third connection has replaced the handle its key had.
C11_Witness ==
    /\ Len(conns) = 3
    /\ \E c \in 1..2 : KeyOf(c) = KeyOf(3)
    /\ KeyOf(3) \in DOMAIN activeStreams
    /\ activeStreams[KeyOf(3)].ws = 3

\* C12: when the speech-synthesis call fails for a frame (the call returns
\* no audio: the speech service never answers an empty one), the frame gets
\* no encoded audio and no media message is sent to any stream for it.
C12_SynthesisFailure ==
    [][ended'.task.call.service = "synthesize" /\ ended'.speech = <<>> =>
          /\ ended'.outcome = "synth_error"
          /\ ended'.payload = <<>>
          /\ sent' = sent
          /\ \A m \in sent' : m.frame # ended'.task.frame]_vars

\* Synthesis has failed for a frame whose counterpart stream is registered
\* and open.
C12_Witness ==
    /\ ended.outcome = "synth_error"
    /\ LET key == StreamKey(ended.task.frame.sessionId,
                            TargetParticipant(ended.task.frame.source))
       IN  /\ key \in DOMAIN activeStreams
           /\ conns[activeStreams[key].ws].readyState = WS_OPEN

\* A text without a character other than blanks.
Blank(text) == \A i \in 1..Len(text) : text[i] = " "

\* C13: when the transcription service fails or returns an empty or
\* whitespace-only text for a frame, the pipeline stops for the frame:
\* neither the translation nor the synthesis service is called for it and
\* nothing is routed.
C13_SilenceStops ==
    /\ [](\A t \in tasks :
             t.call.service \in {"translate", "synthesize"} =>
                 t.transcription # NULL /\ ~Blank(t.transcription))
    /\ [](ended.outcome \in Routed \cup {"synth_error"} =>
             ended.task.transcription # NULL /\ ~Blank(ended.task.transcription))
    /\ [][ended'.outcome = "silence" =>
             /\ ended'.task \in tasks
             /\ ended'.task.call.service = "transcribe"
             /\ tasks' = tasks \ {ended'.task}
             /\ sent' = sent]_vars

\* A frame has been dropped as silence while the counterpart could have
\* been sent to.
C13_Witness ==
    /\ ended.outcome = "silence"
    /\ StreamKey(ended.task.frame.sessionId,
                 TargetParticipant(ended.task.frame.source)) \in DOMAIN activeStreams

\* The other leg of the two.
Complement(participant) == CHOOSE other \in ParticipantTypes : other # participant

\* C14: for every frame that is routed, the destination participant type is
\* the complement of the frame's source in {web, phone}: a frame from phone
\* goes only to the web handle, a frame from web only to the phone handle,
\* and never to the handle of its own source leg.
C14_TargetIsComplement ==
    /\ \A m \in sent :
           /\ conns[m.ws].participant = Complement(m.frame.source)
           /\ conns[m.ws].participant # m.frame.source
           /\ m.message.streamSid = <<"stream", m.frame.sessionId,
                                      Complement(m.frame.source)>>
    /\ ended.outcome \in Routed =>
           /\ ended.target = Complement(ended.task.frame.source)
           /\ ended.ws # 0 => conns[ended.ws].participant = ended.target

\* Frames of both legs have been delivered.
C14_Witness ==
    /\ \E m \in sent : m.frame.source = "phone" /\ conns[m.ws].participant = "web"
    /\ \E m \in sent : m.frame.source = "web" /\ conns[m.ws].participant = "phone"

\* C15: for every frame, the source language is the session's phone
\* language when the source leg is phone and its web language when the leg
\* is web, and the target language is the other one; transcription is called
\* with the source language as hint, translation with (source, target), and
\* synthesis with the target.
C15_LanguageResolution ==
    \A t \in tasks :
        LET languages == session[t.frame.sessionId].languages
            source == languages[t.frame.source]
            target == languages[Complement(t.frame.source)]
        IN  /\ t.call.service = "transcribe" => t.call.from = source
            /\ t.call.service = "translate" =>
                   t.call.from = source /\ t.call.to = target
            /\ t.call.service = "synthesize" => t.call.to = target

\* A frame of the web leg waits for its translation while a frame of the
\* phone leg waits for its own.
C15_Witness ==
    /\ \E t \in tasks : t.call.service = "translate" /\ t.frame.source = "web"
    /\ \E t \in tasks : t.call.service = "translate" /\ t.frame.source = "phone"

\* The status requests.
StatusKinds == {"call-status", "conference-status"}

\* C16: a call-status or conference-status event whose session id is
\* missing or not in the registry changes nothing: no session is created, no
\* session's status or participants change, no removal timer is scheduled,
\* and the handler acknowledges with 200.
C16_UnknownSessionEvent ==
    [][handled'.kind \in StatusKinds
         /\ (handled'.sessionId = "" \/ handled'.sessionId \notin activeSessions) =>
          /\ activeSessions' = activeSessions
          /\ session' = session
          /\ timers' = timers
          /\ pendingCreate' = pendingCreate
          /\ handled'.reply = 200]_vars

\* A conference-end event has been handled for a session that the cleanup
\* timer had removed.
C16_Witness ==
    /\ handled.kind = "conference-status"
    /\ handled.event = "conference-end"
    /\ handled.sessionId \in DOMAIN session
    /\ handled.sessionId \notin activeSessions

\* A create-session body that must be rejected.
Invalid(body) ==
    \/ body.phoneNumber = ""
    \/ body.phoneLanguage \notin Langs
    \/ body.webLanguage \notin Langs

HandledKnown(kind) ==
    /\ handled.kind = kind
    /\ handled.sessionId # ""
    /\ handled.sessionId \in activeSessions

\* C18: whenever a conference-end event is processed for a session in the
\* registry, the status becomes conference_ended and a teardown timer is
\* pending; and while a teardown delay of a session has not elapsed, the
\* session is in the registry for later events to find.
C18_Teardown ==
    /\ HandledKnown("conference-status") /\ handled.event = "conference-end" =>
           /\ session[handled.sessionId].status = "conference_ended"
           /\ timers[handled.sessionId] > 0
    /\ \A id \in DOMAIN timers : timers[id] > 0 => id \in activeSessions

\* C19: on a call-status event for a session in the registry, answered
\* received while the session is phone_calling sets the status to
\* phone_answered, completed or failed received in any state sets it to
\* call_ended, and initiated or ringing leaves the status unchanged.
C19_CallStatus ==
    [][handled'.kind = "call-status" /\ handled'.sessionId # ""
         /\ handled'.sessionId \in activeSessions =>
          LET id == handled'.sessionId
              CallStatus == handled'.event
              before == session[id].status
              after == session'[id].status
          IN  /\ CallStatus = "answered" /\ before = "phone_calling" =>
                     after = "phone_answered"
              /\ CallStatus \in {"completed", "failed"} => after = "call_ended"
              /\ CallStatus \in {"initiated", "ringing"} => after = before]_vars

\* A failed call has been reported for a session in the registry.
C19_Witness ==
    /\ HandledKnown("call-status")
    /\ handled.event = "failed"
    /\ session[handled.sessionId].status = "call_ended"

\* The status a conference-status event is to leave, when it is to leave one.
JoinStatus(event, participant) ==
    IF event = "participant-join" /\ participant = "phone" THEN "phone_in_conference"
    ELSE IF event = "participant-join" /\ participant = "web" THEN "web_joined"
    ELSE IF event = "conference-start" THEN "conference_active"
    ELSE "none"

\* C20: on a conference-status event for a session in the registry,
\* participant-join sets the status to phone_in_conference when the joining
\* leg is phone and to web_joined when it is web, conference-start sets it to
\* conference_active; and a session's status becomes one of these three only
\* by the event that is to set it.
C20_ConferenceStatus ==
    /\ [][handled'.kind = "conference-status" /\ handled'.sessionId # ""
            /\ handled'.sessionId \in activeSessions
            /\ JoinStatus(handled'.event, handled'.participant) # "none" =>
             session'[handled'.sessionId].status =
                 JoinStatus(handled'.event, handled'.participant)]_vars
    /\ [][\A id \in DOMAIN session :
             (/\ id \in DOMAIN session'
              /\ session'[id].status # session[id].status
              /\ session'[id].status \in
                     {"phone_in_conference", "web_joined", "conference_active"}) =>
                 /\ handled'.kind = "conference-status"
                 /\ handled'.sessionId = id
                 /\ JoinStatus(handled'.event, handled'.participant) =
                        session'[id].status]_vars

\* The web leg's join has been processed for a session in the registry.
C20_Witness ==
    /\ HandledKnown("conference-status")
    /\ handled.event = "participant-join"
    /\ handled.participant = "web"
    /\ session[handled.sessionId].status = "web_joined"

\* Bit i of the byte b.
Bit(b, i) == (b \div Pow2(i)) % 2

\* The value of bits lo..hi of the byte b.
Bits(b, lo, hi) == (b \div Pow2(lo)) % Pow2(hi - lo + 1)

\* The linear value of byte b by its fields: mantissa << (exponent + 3),
\* plus 0x84 << exponent when the exponent is not 0, negated when bit 7 is
\* set.
FieldValue(b) ==
    LET exponent == Bits(b, 4, 6)
        magnitude == Bits(b, 0, 3) * Pow2(exponent + 3)
                     + (IF exponent # 0 THEN 132 * Pow2(exponent) ELSE 0)
    IN  IF Bit(b, 7) = 1 THEN -magnitude ELSE magnitude

\* C29: for every byte b in 0..255 the decoder returns
\* sign * ((mantissa << (exponent+3)) + (exponent != 0 ? 0x84 << exponent : 0)),
\* the fields being bits 7, 6-4 and 3-0 of b; the value lies in
\* -32768..32767 and writing it as an int16 sample does not throw.
C29_Decode ==
    /\ codec.pc # "threw"
    /\ codec.pc \in {"decoded", "encoded"} =>
           /\ codec.linear = FieldValue(codec.mulaw)
           /\ codec.linear >= -32768
           /\ codec.linear <= 32767

\* The byte 0xFF has been decoded to the sample of largest magnitude.
C29_Witness ==
    /\ codec.pc = "decoded"
    /\ codec.mulaw = 255
    /\ codec.linear = -32256

\* C21: a participant-leave event for a session in the registry sets the
\* leave time of that leg's participant record when the session has one and
\* adds no record when it has none; the session's status, the record of the
\* other leg, the stream table, the accumulators and every other session
\* stay as they were.
C21_ParticipantLeave ==
    [][(/\ handled'.kind = "conference-status"
        /\ handled'.event = "participant-leave"
        /\ handled'.sessionId # ""
        /\ handled'.sessionId \in activeSessions) =>
           LET id == handled'.sessionId
               leg == handled'.participant
               before == session[id]
               after == session'[id]
           IN  /\ DOMAIN after.participants = DOMAIN before.participants
               /\ leg \in DOMAIN before.participants =>
                      after.participants[leg].leftAt = TRUE
               /\ \A other \in DOMAIN before.participants \ {leg} :
                      after.participants[other] = before.participants[other]
               /\ after.status = before.status
               /\ after.audioBuffers = before.audioBuffers
               /\ activeStreams' = activeStreams
               /\ activeSessions' = activeSessions
               /\ \A s \in DOMAIN session \ {id} : session'[s] = session[s]]_vars

\* The web leg of a session has left while the phone leg, which has a record
\* too, has not, and the session's accumulators hold audio.
C21_Witness ==
    /\ HandledKnown("conference-status")
    /\ handled.event = "participant-leave"
    /\ handled.participant = "web"
    /\ LET sess == session[handled.sessionId]
       IN  /\ DOMAIN sess.participants = {"web", "phone"}
           /\ sess.participants["web"].leftAt
           /\ ~sess.participants["phone"].leftAt
           /\ DOMAIN sess.audioBuffers # {}
           /\ \A key \in DOMAIN sess.audioBuffers : AudioLen(sess.audioBuffers[key]) > 0

\* The voice webhooks.
CallKinds == {"incoming-call", "voice"}

\* No session of the registry waits for its web leg.
NoneWaiting ==
    \A id \in activeSessions :
        session[id].status # "phone_calling" /\ session[id].status # "phone_answered"

\* The call `request` resolves to no session in the current state: a
\* session-less web call (POST /voice, or POST /incoming-call of type web
\* from a client without a session parameter) when no session waits for its
\* web leg, and any other call whose session parameter is missing or not in
\* the registry.
Unresolved(request) ==
    IF request.kind = "voice"
       \/ (/\ request.participant = "web"
           /\ request.sessionId = ""
           /\ request.fromClient)
    THEN NoneWaiting
    ELSE request.sessionId = "" \/ request.sessionId \notin activeSessions

\* C26: an inbound call that resolves to no session is answered with a
\* spoken refusal and a hangup and with no stream and no conference instruction,
\* and the status and the participant records of every session stay as they
\* were.
C26_UnresolvedCall ==
    [][(handled'.kind \in CallKinds /\ Unresolved(handled')) =>
           /\ handled'.twiml.say # ""
           /\ handled'.twiml.hangup
           /\ handled'.twiml.stream = NoStream
           /\ handled'.twiml.conference = ""
           /\ DOMAIN session' = DOMAIN session
           /\ \A id \in DOMAIN session :
                  /\ session'[id].status = session[id].status
                  /\ session'[id].participants = session[id].participants]_vars

\* A web client has called in without a session parameter while the only
\* session of the registry was past waiting for its web leg, and was turned
\* away.
C26_Witness ==
    /\ handled.kind = "incoming-call"
    /\ handled.participant = "web"
    /\ handled.sessionId = ""
    /\ handled.fromClient
    /\ handled.twiml = Apology("start_new_session")
    /\ activeSessions # {}

\* C27: a participant record that has a leave time keeps it: no step
\* removes the leave time or replaces the record with one that has none.
C27_LeaveTimeKept ==
    [][\A id \in DOMAIN session :
         \A leg \in DOMAIN session[id].participants :
             session[id].participants[leg].leftAt =>
                 /\ id \in DOMAIN session'
                 /\ leg \in DOMAIN session'[id].participants
                 /\ session'[id].participants[leg].leftAt]_vars

\* C28: call_ended is terminal: a session whose status is call_ended keeps
\* that status through every call-status event, conference-status event and
\* inbound call.
C28_CallEndedTerminal ==
    [][\A id \in DOMAIN session :
         (session[id].status = "call_ended" /\ id \in DOMAIN session') =>
             session'[id].status = "call_ended"]_vars

\* The column of a status in the state diagram.
Level(status) ==
    CASE status = "created" -> 1
      [] status = "phone_calling" -> 2
      [] status \in {"phone_answered", "call_ended"} -> 3
      [] status \in {"phone_in_conference", "web_joining"} -> 4
      [] status \in {"web_joined", "conference_active"} -> 5
      [] status = "conference_ended" -> 6

\* The edges of the state diagram: from a status other than call_ended to a
\* status of the next column, and to call_ended from a status before the
\* conference.
Edge(from, to) ==
    \/ from # "call_ended" /\ to # "call_ended" /\ Level(to) = Level(from) + 1
    \/ to = "call_ended" /\ from \in {"created", "phone_calling", "phone_answered"}

\* C30: every change of a session's status follows an edge of the state
\* diagram, and none moves a session to an earlier column of it.
C30_DiagramEdges ==
    [][\A id \in DOMAIN session :
         (id \in DOMAIN session' /\ session'[id].status # session[id].status) =>
             /\ Edge(session[id].status, session'[id].status)
             /\ Level(session'[id].status) >= Level(session[id].status)]_vars

\* The invocations of translateAndForwardAudio under way for the frames of
\* one leg.
InFlight(key) ==
    Cardinality({t \in tasks : StreamKey(t.frame.sessionId, t.frame.source) = key})

\* C23: the number of invocations in flight for a key has a bound that the
\* number of arriving media messages does not push up: of the MaxMedia
\* messages of a behaviour, fewer than MaxMedia have an invocation of one
\* key under way at the same time.
C23_BoundedInFlight ==
    \A key \in DOMAIN emitted : InFlight(key) < MaxMedia

\* C24: when a stream's handle leaves the stream table, on stop or on
\* close, the accumulator of its key is emptied in the same step; and a
\* connection that is stored for a key without a handle finds the key's
\* accumulator empty.
C24_DisconnectTeardown ==
    [][/\ \A key \in DOMAIN activeStreams \ DOMAIN activeStreams' :
            \/ key \notin DOMAIN session'[key[1]].audioBuffers
            \/ AudioLen(session'[key[1]].audioBuffers[key]) = 0
       /\ \A key \in DOMAIN activeStreams' \ DOMAIN activeStreams :
            key \in DOMAIN fedLen => AudioLen(PendingOf(key)) = 0]_vars

\* Socket c may be handed a message of some kind.
Processes(c) ==
    \/ ENABLED MessageConnectedOrStart(c)
    \/ ENABLED MessageStop(c)
    \/ \E len \in PartLens : ENABLED MessageMediaDisconnect(c, len)

\* C25: a media-stream connection that names a session id which is not in
\* the registry is closed, stores no stream handle and changes neither the
\* registry nor a session; and no message is processed on a connection that
\* was turned away.
C25_UnknownSessionConnect ==
    /\ [][(/\ Len(conns') = Len(conns) + 1
           /\ conns'[Len(conns')].sessionId \notin activeSessions) =>
              /\ conns'[Len(conns')].readyState # WS_OPEN
              /\ activeStreams' = activeStreams
              /\ activeSessions' = activeSessions
              /\ session' = session]_vars
    /\ [](\A c \in 1..Len(conns) : ~conns[c].attached => ~Processes(c))

\* A connection for a session that has been removed from the registry was
\* turned away while the stream of an earlier connection is still stored.
C25_Witness ==
    /\ "s1" \notin activeSessions
    /\ \E c \in 1..Len(conns) :
           /\ conns[c].sessionId = "s1"
           /\ ~conns[c].attached
           /\ nMedia < MaxFeeds
    /\ activeStreams # EmptyMap

\* The invocations under way for the frames of keys other than `key`.
OthersInFlight(key) ==
    {t \in tasks : StreamKey(t.frame.sessionId, t.frame.source) # key}

\* C22: while invocations of other keys wait for a speech service, an open
\* stream can be handed its next media message; and the step that takes the
\* message accounts for its bytes in the frames and the accumulator of its
\* own key and leaves the waiting invocations of the other keys as they are.
C22_IngestionNotBlocked ==
    /\ [](\A c \in 1..Len(conns) :
            (/\ conns[c].attached
             /\ conns[c].readyState = WS_OPEN
             /\ nMedia < MaxMedia
             /\ OthersInFlight(KeyOf(c)) # {}) =>
                \A len \in RelayLens : ENABLED MessageMediaIngest(c, len))
    /\ [][\A key \in DOMAIN fedLen' :
            (key \notin DOMAIN fedLen \/ fedLen'[key] # fedLen[key]) =>
                /\ OthersInFlight(key) \subseteq tasks'
                /\ Len(emitted'[key]) * chunkSize
                       + AudioLen(session'[key[1]].audioBuffers[key]) = fedLen'[key]
                /\ \A other \in DOMAIN fedLen \ {key} : fedLen'[other] = fedLen[other]]_vars

\* A frame of one session was taken while a frame of another session was
\* with the speech services, and both are with them now.
C22_Witness ==
    \A key \in {StreamKey("s1", "web"), StreamKey("s2", "phone")} :
        InFlight(key) = 1

\* C31: every key of the stream table and of a session's accumulators has
\* the participant type web or phone, and no frame of another participant
\* tag is with the speech services or has been delivered.
C31_ClosedParticipantSet ==
    /\ \A key \in DOMAIN activeStreams : key[2] \in ParticipantTypes
    /\ \A id \in DOMAIN session :
           \A key \in DOMAIN session[id].audioBuffers : key[2] \in ParticipantTypes
    /\ \A t \in tasks : t.frame.source \in ParticipantTypes
    /\ ended.outcome = "sent" => ended.task.frame.source \in ParticipantTypes

\* Connection c closes in the step.
Closes(c) == conns[c].readyState # WS_CLOSED /\ conns'[c].readyState = WS_CLOSED

\* C32: the close of a connection that a newer connection has replaced
\* leaves the newer handle in the stream table: no handle leaves the table
\* in a step in which a connection other than its own closes.
C32_StaleCloseKeepsHandle ==
    [][\A key \in DOMAIN activeStreams \ DOMAIN activeStreams' :
         \A c \in 1..Len(conns) :
             c # activeStreams[key].ws => ~Closes(c)]_vars

\* C33: a session's status does not return to phone_calling: a step sets
\* the status phone_calling only on a session whose status is created, so
\* the completion of create-session keeps what a call-status or inbound-call
\* event has set in the meantime.
C33_NoReturnToCalling ==
    [][\A id \in DOMAIN session :
         (/\ id \in DOMAIN session'
          /\ session'[id].status = "phone_calling"
          /\ session[id].status # "phone_calling") =>
             session[id].status = "created"]_vars

\* C34: when placing the outbound call fails, the request is answered with
\* an error and the registry holds no session of that request.
C34_FailedCreateRemoved ==
    [][(handled'.kind = "create-session" /\ handled'.event = "failed") =>
           /\ handled'.reply >= 400
           /\ handled'.sessionId \notin activeSessions']_vars

\* C35: every handle of the stream table belongs to a session of the
\* registry: once the cleanup timer has removed a session, the table holds
\* no handle under its id.
C35_HandlesOfLiveSessions ==
    \A key \in DOMAIN activeStreams : key[1] \in activeSessions

\* Session id is in the registry with a final status.
Finished(id) ==
    /\ id \in activeSessions
    /\ session[id].status \in {"call_ended", "conference_ended"}

\* C36: every session that reaches the status call_ended or
\* conference_ended is removed from the registry in the end.
C36_FinishedRemoved ==
    \A id \in {IdPool[i] : i \in 1..MaxSessions} :
        Finished(id) ~> (id \notin activeSessions)

\* The last step attached a web caller who named no session.
WebAttached(request) ==
    /\ request.kind \in CallKinds
    /\ request.sessionId = ""
    /\ request.twiml.conference # ""

\* C37: a web call that names no session is attached only to a session
\* whose status is phone_calling or phone_answered, and only to a session
\* that has no web participant record yet, so that no session gets a second
\* web leg and no web record is overwritten.
C37_OneWebLeg ==
    [][WebAttached(handled') =>
           LET sess == session[handled'.twiml.conference]
           IN  /\ sess.status \in {"phone_calling", "phone_answered"}
               /\ "web" \notin DOMAIN sess.participants]_vars

====
